---- MODULE Spec2Model ----
(***************************************************************************)
(* Model of backend/storage.py: conversation storage behind two backends,  *)
(* a directory of JSON files and a relational table, selected by           *)
(* DATABASE_URL.                                                           *)
(***************************************************************************)
EXTENDS Integers, Sequences, FiniteSets, TLC

VARIABLES
    DATABASE_URL,  \* the connection string read at import; "" when unset
    table,         \* relational backend: the rows of table conversations
    files,         \* file backend: filename in DATA_DIR -> parsed JSON document
    last,          \* the most recent call or step, with its outcome
    pc,            \* concurrent callers: position inside a get-then-save helper
    call,          \* concurrent callers: the helper call being run
    conversation,  \* concurrent callers: the local variable `conversation`
    seen,          \* history: what the caller's get_conversation returned
    missed         \* history: the save by another caller that landed on the
                   \* same id after this caller's get_conversation

vars == <<DATABASE_URL, table, files, last, pc, call, conversation, seen, missed>>

----------------------------------------------------------------------------
(* Bounds and input domains *)

\* Most message entries the store holds before the model stops appending.
MaxMsgs == 2

Ids == {"a", "b"}
Contents == {"hello", "bye"}
Titles == {"New Conversation", "My Chat"}
\* Clock readings: two in the same second, one of them on the whole second
\* (the case isoformat() treats apart), and one a second later.
Times == {[sec |-> 0, us |-> 0], [sec |-> 0, us |-> 7], [sec |-> 1, us |-> 0]}
\* (stage1, stage2, stage3) payloads an assistant turn is called with
Payloads ==
    { <<  <<[model |-> "a", text |-> "x"]>>, <<[rank |-> 1]>>, [text |-> "final"]  >> }
Procs == {"p1", "p2"}

None == [none |-> TRUE]
NoError == ""

----------------------------------------------------------------------------
(* Timestamps *)

\* datetime.isoformat(): "YYYY-MM-DDTHH:MM:SS.ffffff", and without the
\* ".ffffff" part when the microsecond is 0.  A string is modelled as the
\* sequence of its fixed-width, zero-padded fields: the part up to the
\* seconds, then the microseconds if printed.
isoformat(t) == IF t.us = 0 THEN <<t.sec>> ELSE <<t.sec, t.us>>

\* datetime.fromisoformat(): the instant a stored created_at denotes.
fromisoformat(s) == [sec |-> s[1], us |-> IF Len(s) > 1 THEN s[2] ELSE 0]

\* Chronological order of instants.
Earlier(t, u) == t.sec < u.sec \/ (t.sec = u.sec /\ t.us < u.us)

\* String comparison as Python (str.__lt__) and the TEXT column do it:
\* lexicographic, a proper prefix being smaller.
StrLess(s, u) ==
    \E i \in 1..Len(u) :
        /\ \A j \in 1..(i - 1) : j <= Len(s) /\ s[j] = u[j]
        /\ (i > Len(s) \/ (i <= Len(s) /\ s[i] < u[i]))

----------------------------------------------------------------------------
(* Backend selection and paths *)

using_database == DATABASE_URL # ""

get_conversation_path(conversation_id) == <<conversation_id, ".json">>

\* The rows of the table and the documents of DATA_DIR.
RowOf(tbl, conversation_id) == {row \in tbl : row[1] = conversation_id}

Write(fls, path, doc) ==
    [p \in (DOMAIN fls) \cup {path} |-> IF p = path THEN doc ELSE fls[p]]

Outcome(tbl, fls, raised, ret) ==
    [table |-> tbl, files |-> fls, raised |-> raised, ret |-> ret]

----------------------------------------------------------------------------
(* The storage operations, as functions of the store *)

DefaultTitle == "New Conversation"

NewConversation(conversation_id, now) ==
    [id |-> conversation_id, created_at |-> isoformat(now),
     title |-> DefaultTitle, messages |-> <<>>]

Row(c) == <<c.id, c.created_at, c.title, c.messages>>

\* Variant: the stored timestamp is cut to whole seconds while the returned
\* one keeps its microseconds.
create_conversation_truncated(tbl, fls, conversation_id, now) ==
    LET c == NewConversation(conversation_id, now)
        stored == [c EXCEPT !.created_at = <<now.sec>>]
    IN  IF using_database
        THEN IF RowOf(tbl, conversation_id) # {}
             THEN Outcome(tbl, fls, "UniqueViolation", None)
             ELSE Outcome(tbl \cup {Row(stored)}, fls, NoError, c)
        ELSE Outcome(tbl, Write(fls, get_conversation_path(conversation_id), stored),
                     NoError, c)

\* Variant: a duplicate id is ignored by the table (ON CONFLICT DO NOTHING)
\* and refused by the file backend (open mode 'x').
create_conversation_exclusive(tbl, fls, conversation_id, now) ==
    LET c == NewConversation(conversation_id, now)
        path == get_conversation_path(conversation_id)
    IN  IF using_database
        THEN IF RowOf(tbl, conversation_id) # {}
             THEN Outcome(tbl, fls, NoError, c)
             ELSE Outcome(tbl \cup {Row(c)}, fls, NoError, c)
        ELSE IF path \in DOMAIN fls
             THEN Outcome(tbl, fls, "FileExistsError", None)
             ELSE Outcome(tbl, Write(fls, path, c), NoError, c)

\* create_conversation: INSERT a row (the primary key refuses a duplicate id)
\* or write the file (open mode 'w' replaces an existing one).
create_conversation(tbl, fls, conversation_id, now) ==
    LET c == NewConversation(conversation_id, now)
    IN  IF using_database
        THEN IF RowOf(tbl, conversation_id) # {}
             THEN Outcome(tbl, fls, "UniqueViolation", None)
             ELSE Outcome(tbl \cup {Row(c)}, fls, NoError, c)
        ELSE Outcome(tbl, Write(fls, get_conversation_path(conversation_id), c),
                     NoError, c)

\* get_conversation: the row as a dict, or the parsed file; None when absent.
get_conversation(tbl, fls, conversation_id) ==
    IF using_database
    THEN IF RowOf(tbl, conversation_id) = {}
         THEN None
         ELSE LET row == CHOOSE r \in RowOf(tbl, conversation_id) : TRUE
              IN  [id |-> row[1], created_at |-> row[2],
                   title |-> row[3], messages |-> row[4]]
    ELSE IF get_conversation_path(conversation_id) \notin DOMAIN fls
         THEN None
         ELSE fls[get_conversation_path(conversation_id)]

\* Variant: the UPDATE has lost its WHERE clause.
save_conversation_no_where(tbl, fls, c) ==
    IF using_database
    THEN Outcome({<<row[1], row[2], c.title, c.messages>> : row \in tbl},
                 fls, NoError, None)
    ELSE Outcome(tbl, Write(fls, get_conversation_path(c.id), c), NoError, None)

\* Variant: only the title is written; the stored messages are kept.
save_conversation_title_only(tbl, fls, c) ==
    IF using_database
    THEN Outcome({IF row[1] = c.id THEN <<row[1], row[2], c.title, row[4]>> ELSE row
                    : row \in tbl},
                 fls, NoError, None)
    ELSE LET path == get_conversation_path(c.id)
         IN  Outcome(tbl,
                     Write(fls, path,
                           IF path \in DOMAIN fls
                           THEN [fls[path] EXCEPT !.title = c.title]
                           ELSE c),
                     NoError, None)

\* Variant: the table upserts, the file backend only rewrites an existing file.
save_conversation_swapped(tbl, fls, c) ==
    IF using_database
    THEN Outcome({row \in tbl : row[1] # c.id} \cup
                    {IF RowOf(tbl, c.id) = {}
                     THEN Row(c)
                     ELSE LET old == CHOOSE r \in RowOf(tbl, c.id) : TRUE
                          IN  <<old[1], old[2], c.title, c.messages>>},
                 fls, NoError, None)
    ELSE IF get_conversation_path(c.id) \in DOMAIN fls
         THEN Outcome(tbl, Write(fls, get_conversation_path(c.id), c), NoError, None)
         ELSE Outcome(tbl, fls, NoError, None)

\* save_conversation: UPDATE title and messages WHERE id matches (no row, no
\* change), or dump the whole dict to the id's file.
save_conversation(tbl, fls, c) ==
    IF using_database
    THEN Outcome({IF row[1] = c.id THEN <<row[1], row[2], c.title, c.messages>> ELSE row
                    : row \in tbl},
                 fls, NoError, None)
    ELSE Outcome(tbl, Write(fls, get_conversation_path(c.id), c), NoError, None)

----------------------------------------------------------------------------
(* Listing *)

\* list.sort(key=created_at, reverse=True) and ORDER BY created_at DESC: a
\* stable sort of the entries, greatest created_at string first.  Built by
\* insertion: each entry goes behind every entry whose key is not smaller.
InsertDesc(sorted, x) ==
    LET ahead == {i \in 1..Len(sorted) : ~StrLess(sorted[i].created_at, x.created_at)}
        k == IF ahead = {} THEN 0
             ELSE CHOOSE i \in ahead : \A j \in ahead : j <= i
    IN  SubSeq(sorted, 1, k) \o <<x>> \o SubSeq(sorted, k + 1, Len(sorted))

InsertAsc(sorted, x) ==
    LET ahead == {i \in 1..Len(sorted) : ~StrLess(x.created_at, sorted[i].created_at)}
        k == IF ahead = {} THEN 0
             ELSE CHOOSE i \in ahead : \A j \in ahead : j <= i
    IN  SubSeq(sorted, 1, k) \o <<x>> \o SubSeq(sorted, k + 1, Len(sorted))

RECURSIVE SortDesc(_)
SortDesc(seq) ==
    IF seq = <<>> THEN <<>>
    ELSE InsertDesc(SortDesc(SubSeq(seq, 1, Len(seq) - 1)), seq[Len(seq)])

RECURSIVE SortAsc(_)
SortAsc(seq) ==
    IF seq = <<>> THEN <<>>
    ELSE InsertAsc(SortAsc(SubSeq(seq, 1, Len(seq) - 1)), seq[Len(seq)])

\* The orders in which a backend may hand over its entries: the rows of a
\* scan, the names of os.listdir.
Scans(S) ==
    {q \in [1..Cardinality(S) -> S] : \A i, j \in 1..Cardinality(S) : q[i] = q[j] => i = j}

StoredKeys == IF using_database THEN table ELSE DOMAIN files

RowSummary(row) ==
    [id |-> row[1], created_at |-> row[2], title |-> row[3],
     message_count |-> Len(row[4])]

FileSummary(data) ==
    [id |-> data.id, created_at |-> data.created_at, title |-> data.title,
     message_count |-> Len(data.messages)]

IsJson(filename) == filename[2] = ".json"

\* Variant: the sort has lost reverse=True / DESC.
list_conversations_ascending(tbl, fls, scan) ==
    IF using_database
    THEN SortAsc([i \in 1..Len(scan) |-> RowSummary(scan[i])])
    ELSE LET names == SelectSeq(scan, IsJson)
         IN  SortAsc([i \in 1..Len(names) |-> FileSummary(fls[names[i]])])

\* list_conversations: one summary per row or per .json file, sorted by
\* created_at, greatest first.  scan is the order the backend yields entries.
list_conversations(tbl, fls, scan) ==
    IF using_database
    THEN SortDesc([i \in 1..Len(scan) |-> RowSummary(scan[i])])
    ELSE LET names == SelectSeq(scan, IsJson)
         IN  SortDesc([i \in 1..Len(names) |-> FileSummary(fls[names[i]])])

----------------------------------------------------------------------------
(* The get-then-save helpers *)

user_message(content) == [role |-> "user", content |-> content]

assistant_message(stage1, stage2, stage3) ==
    [role |-> "assistant", stage1 |-> stage1, stage2 |-> stage2, stage3 |-> stage3]

NotFound(tbl, fls) == Outcome(tbl, fls, "ValueError", None)

\* The change each helper makes to its local `conversation` before saving it.
with_user_message(c, content) ==
    [c EXCEPT !.messages = Append(@, user_message(content))]

with_assistant_message(c, stage1, stage2, stage3) ==
    [c EXCEPT !.messages = Append(@, assistant_message(stage1, stage2, stage3))]

with_title(c, title) == [c EXCEPT !.title = title]

\* Variant: a missing conversation is started instead of reported.
add_user_message_upsert(tbl, fls, conversation_id, content) ==
    LET c == get_conversation(tbl, fls, conversation_id)
        base == IF c = None
                THEN [id |-> conversation_id, created_at |-> <<0>>,
                      title |-> DefaultTitle, messages |-> <<>>]
                ELSE c
    IN  save_conversation(tbl, fls, with_user_message(base, content))

\* Variant: the new entry is put in front (insert(0, ...)).
add_user_message_front(tbl, fls, conversation_id, content) ==
    LET c == get_conversation(tbl, fls, conversation_id)
    IN  IF c = None
        THEN NotFound(tbl, fls)
        ELSE save_conversation(tbl, fls,
                 [c EXCEPT !.messages = <<user_message(content)>> \o @])

add_user_message(tbl, fls, conversation_id, content) ==
    LET c == get_conversation(tbl, fls, conversation_id)
    IN  IF c = None
        THEN NotFound(tbl, fls)
        ELSE save_conversation(tbl, fls, with_user_message(c, content))

add_assistant_message(tbl, fls, conversation_id, stage1, stage2, stage3) ==
    LET c == get_conversation(tbl, fls, conversation_id)
    IN  IF c = None
        THEN NotFound(tbl, fls)
        ELSE save_conversation(tbl, fls,
                 with_assistant_message(c, stage1, stage2, stage3))

update_conversation_title(tbl, fls, conversation_id, title) ==
    LET c == get_conversation(tbl, fls, conversation_id)
    IN  IF c = None
        THEN NotFound(tbl, fls)
        ELSE save_conversation(tbl, fls, with_title(c, title))

----------------------------------------------------------------------------
(* One caller: every public operation is one step *)

callers == <<pc, call, conversation, seen, missed>>

Init ==
    /\ DATABASE_URL \in {"", "postgresql://council"}
    /\ table = {}
    /\ files = <<>>
    /\ last = [op |-> "init"]
    /\ pc = [p \in Procs |-> "idle"]
    /\ call = [p \in Procs |-> None]
    /\ conversation = [p \in Procs |-> None]
    /\ seen = [p \in Procs |-> None]
    /\ missed = [p \in Procs |-> None]

Effect(o) ==
    /\ table' = o.table
    /\ files' = o.files
    /\ UNCHANGED DATABASE_URL

\* Entries held by all stored conversations together.
RECURSIVE Held(_)
Held(keys) ==
    IF keys = {} THEN 0
    ELSE LET k == CHOOSE x \in keys : TRUE
         IN  (IF using_database THEN Len(k[4]) ELSE Len(files[k].messages))
             + Held(keys \ {k})

\* The model stops appending once the store holds MaxMsgs entries.
Room == Held(StoredKeys) < MaxMsgs

\* Records a caller may hand to save_conversation.
SaveInputs ==
    [id : Ids, created_at : {isoformat(t) : t \in Times}, title : Titles,
     messages : {<<>>, <<user_message("hello")>>}]

Create(conversation_id, now) ==
    LET o == create_conversation(table, files, conversation_id, now)
    IN  /\ Effect(o)
        /\ last' = [op |-> "create", id |-> conversation_id,
                    raised |-> o.raised, ret |-> o.ret]
        /\ UNCHANGED callers

Get(conversation_id) ==
    /\ last' = [op |-> "get", id |-> conversation_id, raised |-> NoError,
                ret |-> get_conversation(table, files, conversation_id)]
    /\ UNCHANGED <<DATABASE_URL, table, files, callers>>

Save(c) ==
    LET o == save_conversation(table, files, c)
    IN  /\ c.messages # <<>> => Room
        /\ Effect(o)
        /\ last' = [op |-> "save", id |-> c.id, arg |-> c, raised |-> o.raised]
        /\ UNCHANGED callers

List(scan) ==
    /\ last' = [op |-> "list", raised |-> NoError,
                ret |-> list_conversations(table, files, scan)]
    /\ UNCHANGED <<DATABASE_URL, table, files, callers>>

AddUserMessage(conversation_id, content) ==
    /\ Room
    /\ LET o == add_user_message(table, files, conversation_id, content)
       IN  /\ Effect(o)
           /\ last' = [op |-> "add_user_message", id |-> conversation_id,
                       content |-> content, raised |-> o.raised]
    /\ UNCHANGED callers

AddAssistantMessage(conversation_id, stages) ==
    /\ Room
    /\ LET o == add_assistant_message(table, files, conversation_id,
                                      stages[1], stages[2], stages[3])
       IN  /\ Effect(o)
           /\ last' = [op |-> "add_assistant_message", id |-> conversation_id,
                       stage1 |-> stages[1], stage2 |-> stages[2],
                       stage3 |-> stages[3], raised |-> o.raised]
    /\ UNCHANGED callers

UpdateTitle(conversation_id, title) ==
    LET o == update_conversation_title(table, files, conversation_id, title)
    IN  /\ Effect(o)
        /\ last' = [op |-> "update_title", id |-> conversation_id,
                    title |-> title, raised |-> o.raised]
        /\ UNCHANGED callers

\* create, the helpers and the reads: what a caller that never calls
\* save_conversation itself can do.
PublicNext ==
    \/ \E id \in Ids, now \in Times : Create(id, now)
    \/ \E id \in Ids : Get(id)
    \/ \E scan \in Scans(StoredKeys) : List(scan)
    \/ \E id \in Ids, content \in Contents : AddUserMessage(id, content)
    \/ \E id \in Ids, stages \in Payloads : AddAssistantMessage(id, stages)
    \/ \E id \in Ids, title \in Titles : UpdateTitle(id, title)

Next ==
    \/ \E id \in Ids, now \in Times : Create(id, now)
    \/ \E id \in Ids : Get(id)
    \/ \E c \in SaveInputs : Save(c)
    \/ \E scan \in Scans(StoredKeys) : List(scan)
    \/ \E id \in Ids, content \in Contents : AddUserMessage(id, content)
    \/ \E id \in Ids, stages \in Payloads : AddAssistantMessage(id, stages)
    \/ \E id \in Ids, title \in Titles : UpdateTitle(id, title)

Spec == Init /\ [][Next]_vars

PublicSpec == Init /\ [][PublicNext]_vars

----------------------------------------------------------------------------
(* Two callers: a helper is two steps, its get_conversation and its        *)
(* save_conversation, each a single statement or file write of its own     *)

\* The id the concurrent callers work on.
ConcIds == {"a"}

HelperCalls ==
    [op : {"add_user_message"}, id : ConcIds, content : Contents]
    \cup {[op |-> "add_assistant_message", id |-> id,
           stage1 |-> s[1], stage2 |-> s[2], stage3 |-> s[3]] : id \in ConcIds, s \in Payloads}
    \cup [op : {"update_title"}, id : ConcIds, title : Titles]

\* The local `conversation` a helper call saves, from the one it read.
Changed(c, k) ==
    CASE k.op = "add_user_message" -> with_user_message(c, k.content)
      [] k.op = "add_assistant_message" ->
            with_assistant_message(c, k.stage1, k.stage2, k.stage3)
      [] k.op = "update_title" -> with_title(c, k.title)

\* Appends read but not yet saved count against the model's bound too.
Pending == Cardinality({p \in Procs : pc[p] = "got" /\ call[p].op # "update_title"})

ConcRoom == Held(StoredKeys) + Pending < MaxMsgs

\* The clock readings of the concurrent runs.
ConcTimes == {[sec |-> 0, us |-> 7]}

\* create_conversation by caller p: one INSERT or one file write.
CallCreate(p, conversation_id, now) ==
    /\ pc[p] = "idle"
    /\ LET o == create_conversation(table, files, conversation_id, now)
       IN  /\ Effect(o)
           /\ last' = [op |-> "create", proc |-> p, id |-> conversation_id,
                       raised |-> o.raised]
    /\ UNCHANGED callers

\* The first half of a helper: get_conversation, the None check, the change
\* to the local copy.
CallGet(p, k) ==
    /\ pc[p] = "idle"
    /\ ConcRoom
    /\ LET c == get_conversation(table, files, k.id)
       IN  IF c = None
           THEN /\ last' = [op |-> "get_step", proc |-> p, call |-> k,
                            raised |-> "ValueError"]
                /\ UNCHANGED callers
           ELSE /\ last' = [op |-> "get_step", proc |-> p, call |-> k,
                            raised |-> NoError]
                /\ pc' = [pc EXCEPT ![p] = "got"]
                /\ call' = [call EXCEPT ![p] = k]
                /\ seen' = [seen EXCEPT ![p] = c]
                /\ conversation' = [conversation EXCEPT ![p] = Changed(c, k)]
                /\ missed' = [missed EXCEPT ![p] = None]
    /\ UNCHANGED <<DATABASE_URL, table, files>>

\* The second half: save_conversation(conversation), after which the helper
\* returns and its locals are gone.  Every other caller that has read the
\* same id and not yet saved now holds a copy without this save.
CallSave(p) ==
    LET o == save_conversation(table, files, conversation[p])
    IN  /\ pc[p] = "got"
        /\ Effect(o)
        /\ last' = [op |-> "save_step", proc |-> p, call |-> call[p],
                    raised |-> o.raised, base |-> seen[p], overwrote |-> missed[p]]
        /\ pc' = [pc EXCEPT ![p] = "idle"]
        /\ call' = [call EXCEPT ![p] = None]
        /\ seen' = [seen EXCEPT ![p] = None]
        /\ conversation' = [conversation EXCEPT ![p] = None]
        /\ missed' = [q \in Procs |->
                        IF q = p THEN None
                        ELSE IF pc[q] = "got" /\ call[q].id = call[p].id
                             THEN [call |-> call[p], raised |-> o.raised]
                             ELSE missed[q]]

ConcNext ==
    \/ \E p \in Procs, id \in ConcIds, now \in ConcTimes : CallCreate(p, id, now)
    \/ \E p \in Procs, k \in HelperCalls : CallGet(p, k)
    \/ \E p \in Procs : CallSave(p)

ConcSpec == Init /\ [][ConcNext]_vars

----------------------------------------------------------------------------
(* Properties *)

Stored(conversation_id) == get_conversation(table, files, conversation_id)

StoredAfter(conversation_id) == get_conversation(table', files', conversation_id)

StoredIds == {id \in Ids : Stored(id) # None}

Helpers == {"add_user_message", "add_assistant_message", "update_title"}

IsPrefix(s, t) == Len(s) <= Len(t) /\ SubSeq(t, 1, Len(s)) = s

\* C1: a helper called with an id that get_conversation does not find raises
\* ValueError and writes nothing: the table and the files are as before and
\* the id is still absent.
C1_NotFoundNoWrite ==
    [][(last'.op \in Helpers /\ Stored(last'.id) = None)
         => /\ last'.raised = "ValueError"
            /\ table' = table
            /\ files' = files
            /\ StoredAfter(last'.id) = None]_vars

C1_Witness ==
    /\ last.op = "add_user_message"
    /\ last.raised = "ValueError"
    /\ Stored(last.id) = None
    /\ StoredIds # {}

\* C2: on an existing conversation with messages M, add_user_message leaves
\* M followed by one {role: user, content} entry and add_assistant_message
\* leaves M followed by one {role: assistant, stage1, stage2, stage3} entry
\* carrying the arguments.
C2_AppendsOneEntry ==
    [][(last'.op \in {"add_user_message", "add_assistant_message"}
          /\ Stored(last'.id) # None)
         => /\ last'.raised = NoError
            /\ StoredAfter(last'.id) # None
            /\ StoredAfter(last'.id).messages =
                 Stored(last'.id).messages \o
                 <<IF last'.op = "add_user_message"
                   THEN [role |-> "user", content |-> last'.content]
                   ELSE [role |-> "assistant", stage1 |-> last'.stage1,
                         stage2 |-> last'.stage2, stage3 |-> last'.stage3]>>]_vars

C2_Witness ==
    /\ last.op = "add_assistant_message"
    /\ last.raised = NoError
    /\ Len(Stored(last.id).messages) = 2
    /\ Stored(last.id).messages[1].role = "user"
    /\ Stored(last.id).messages[2] =
         [role |-> "assistant", stage1 |-> <<[model |-> "a", text |-> "x"]>>,
          stage2 |-> <<[rank |-> 1]>>, stage3 |-> [text |-> "final"]]

\* C3: create on an id not yet stored, then get: the conversation is present
\* with that id, an empty message sequence, the default title and the
\* created_at of the value create returned.
C3_CreateThenGet ==
    [][(last'.op = "create" /\ Stored(last'.id) = None)
         => /\ last'.raised = NoError
            /\ StoredAfter(last'.id) =
                 [id |-> last'.id, created_at |-> last'.ret.created_at,
                  title |-> "New Conversation", messages |-> <<>>]]_vars

C3_Witness ==
    /\ using_database
    /\ last.op = "create"
    /\ last.raised = NoError
    /\ Stored(last.id) = last.ret
    /\ Len(last.ret.created_at) = 2

\* C4: list returns one summary per stored conversation, none missing and
\* none twice, the more recent created_at first, each with the message count
\* get reports for its id.
C4_ListOrdered ==
    last.op = "list" =>
        LET r == last.ret
        IN  /\ Len(r) = Cardinality(StoredIds)
            /\ {r[i].id : i \in 1..Len(r)} = StoredIds
            /\ \A i, j \in 1..Len(r) :
                 i < j => ~Earlier(fromisoformat(r[i].created_at),
                                   fromisoformat(r[j].created_at))
            /\ \A i \in 1..Len(r) :
                 /\ r[i].message_count = Len(Stored(r[i].id).messages)
                 /\ r[i].created_at = Stored(r[i].id).created_at

C4_Witness ==
    /\ last.op = "list"
    /\ Len(last.ret) = 2
    /\ Earlier(fromisoformat(last.ret[2].created_at),
               fromisoformat(last.ret[1].created_at))
    /\ last.ret[1].message_count = 0
    /\ last.ret[2].message_count = 2

\* C5: update_title on an existing conversation changes its title and nothing
\* else: its id, created_at and messages, and every other conversation, stay.
C5_TitleOnly ==
    [][(last'.op = "update_title" /\ Stored(last'.id) # None)
         => /\ last'.raised = NoError
            /\ StoredAfter(last'.id) = [Stored(last'.id) EXCEPT !.title = last'.title]
            /\ \A other \in Ids \ {last'.id} : StoredAfter(other) = Stored(other)]_vars

C5_Witness ==
    /\ last.op = "update_title"
    /\ last.raised = NoError
    /\ Stored(last.id).title = "My Chat"
    /\ Stored(last.id).messages # <<>>
    /\ Cardinality(StoredIds) = 2

\* C6: under create, the helpers and the reads, the messages of a stored
\* conversation are a prefix of its messages after every step.
C6_AppendOnly ==
    [][\A id \in Ids :
         Stored(id) # None
           => /\ StoredAfter(id) # None
              /\ IsPrefix(Stored(id).messages, StoredAfter(id).messages)]_vars

\* C7: a save that follows create(id) leaves the stored created_at the one
\* create stored, whatever created_at the saved record carries.
C7_CreatedAtImmutable ==
    [][(last.op = "create" /\ last.raised = NoError
          /\ last'.op = "save" /\ last'.id = last.id)
         => StoredAfter(last.id).created_at = last.ret.created_at]_vars

\* C8: when a caller's save lands after another caller's save to the same id
\* that its own get did not see, the stored record is the later caller's
\* local copy alone (what it read, with its one change): the earlier update
\* is gone, and both saves returned without an error.
C8_LostUpdate ==
    (last.op = "save_step" /\ last.overwrote # None)
      => /\ last.raised = NoError
         /\ last.overwrote.raised = NoError
         /\ Stored(last.call.id) =
              (CASE last.call.op = "add_user_message" ->
                      [last.base EXCEPT !.messages =
                          @ \o <<[role |-> "user", content |-> last.call.content]>>]
                 [] last.call.op = "add_assistant_message" ->
                      [last.base EXCEPT !.messages =
                          @ \o <<[role |-> "assistant", stage1 |-> last.call.stage1,
                                  stage2 |-> last.call.stage2,
                                  stage3 |-> last.call.stage3]>>]
                 [] last.call.op = "update_title" ->
                      [last.base EXCEPT !.title = last.call.title])

C8_Witness ==
    /\ last.op = "save_step"
    /\ last.overwrote # None
    /\ last.call.op = "add_user_message"
    /\ last.overwrote.call.op = "add_user_message"
    /\ last.call.content # last.overwrote.call.content
    /\ last.raised = NoError
    /\ last.overwrote.raised = NoError
    /\ Stored(last.call.id).messages =
         last.base.messages \o <<[role |-> "user", content |-> last.call.content]>>

\* C9: create on an id already stored: the file backend returns normally and
\* stores the fresh record create returned (default title, no messages); the
\* relational backend raises the uniqueness error and leaves the row as it was.
C9_DuplicateCreate ==
    [][(last'.op = "create" /\ Stored(last'.id) # None)
         => IF using_database
            THEN /\ last'.raised = "UniqueViolation"
                 /\ table' = table
                 /\ StoredAfter(last'.id) = Stored(last'.id)
            ELSE /\ last'.raised = NoError
                 /\ StoredAfter(last'.id) = last'.ret
                 /\ last'.ret.id = last'.id
                 /\ last'.ret.title = "New Conversation"
                 /\ last'.ret.messages = <<>>
                 /\ last'.ret.created_at \in {isoformat(t) : t \in Times}]_vars

C9_Witness ==
    /\ using_database
    /\ last.op = "create"
    /\ last.raised = "UniqueViolation"
    /\ Stored(last.id).title = "My Chat"
    /\ Stored(last.id).messages # <<>>

\* C10: save of a record whose id is not stored raises nothing; the
\* relational backend changes nothing (get stays absent, the listing is the
\* same), the file backend stores the record, which get then returns and the
\* listing includes.
C10_SaveUnknownId ==
    [][(last'.op = "save" /\ Stored(last'.id) = None)
         => /\ last'.raised = NoError
            /\ IF using_database
               THEN /\ table' = table
                    /\ StoredAfter(last'.id) = None
               ELSE /\ StoredAfter(last'.id) = last'.arg
                    /\ \A scan \in Scans(DOMAIN files') :
                         \E i \in 1..Len(list_conversations(table', files', scan)) :
                           list_conversations(table', files', scan)[i].id = last'.id]_vars

C10_Witness ==
    /\ using_database
    /\ last.op = "save"
    /\ last.raised = NoError
    /\ last.arg.messages # <<>>
    /\ Stored(last.id) = None
    /\ StoredIds # {}

====
